---- MODULE Spec2Model ----
(***************************************************************************)
(* Model of the markdown parser of thinknaut (src/src/parser.rs).          *)
(*                                                                         *)
(* Text is a sequence of one-character strings.  Every parsing function of *)
(* the source is an operator over the remaining input s (the field chs     *)
(* of Parser) that returns a record                                        *)
(*     [st, chs, val, calls]                                               *)
(* st    "ok"    the function returned, chs is the cursor after it,        *)
(*               val the value it returned,                                *)
(*       "hang"  the function entered a loop whose body leaves the cursor  *)
(*               where it was, so that the loop never ends,                *)
(*       "panic" the function unwrapped a None;                            *)
(* calls the calls of get_title and the returns of parse_link, in order.   *)
(* One step of the state machine is one iteration of the loop of           *)
(* Parser::parse_markdown.                                                 *)
(***************************************************************************)
EXTENDS Integers, Sequences, FiniteSets, TLC

VARIABLES
    doc,        \* the text handed to parse_markdown
    chs,        \* Parser.chs: the input not yet consumed
    headers,    \* Parser.headers: heading id -> number of uses
    title,      \* Parser.title
    toc,        \* Parser.toc
    content,    \* Parser.content
    pc,         \* "run", "done", "hang" or "panic"
    net,        \* what the network answers to get_title / get_ogp_info
    events      \* the calls of get_title and the returns of parse_link so far

vars == <<doc, chs, headers, title, toc, content, pc, net, events>>

None == "None"

\* the grave accent U+0060, which a TLA+ string cannot hold
Backtick == "^"

(***************************************************************************)
(* Strings                                                                 *)
(***************************************************************************)
StartsWith(s, p) == Len(s) >= Len(p) /\ SubSeq(s, 1, Len(p)) = p

EndsWith(s, p) == Len(s) >= Len(p) /\ SubSeq(s, Len(s) - Len(p) + 1, Len(s)) = p

Drop(s, n) == SubSeq(s, n + 1, Len(s))

IsWhitespace(c) == c \in {" ", "\n", "\r", "\t"}

RECURSIVE trim_start(_)
trim_start(s) ==
    IF s # <<>> /\ IsWhitespace(Head(s)) THEN trim_start(Tail(s)) ELSE s

RECURSIVE trim_end(_)
trim_end(s) ==
    IF s # <<>> /\ IsWhitespace(s[Len(s)])
    THEN trim_end(SubSeq(s, 1, Len(s) - 1)) ELSE s

Digit(d) == <<"0", "1", "2", "3", "4", "5", "6", "7", "8", "9">>[d + 1]

\* the decimal text of n, as format!("{}", n) writes it
RECURSIVE to_string(_)
to_string(n) ==
    IF n < 10 THEN <<Digit(n)>> ELSE Append(to_string(n \div 10), Digit(n % 10))

(***************************************************************************)
(* Values of data.rs                                                       *)
(***************************************************************************)
Text(text) == [k |-> "Text", text |-> text]
Math(math) == [k |-> "Math", math |-> math]
Code(code) == [k |-> "Code", code |-> code]
Link(text, url) == [k |-> "Link", text |-> text, url |-> url]

PrimElem(prim) == [k |-> "PrimElem", prim |-> prim]
Bold(text) == [k |-> "Bold", text |-> text]
Ital(text) == [k |-> "Ital", text |-> text]

List(ordered, items) == [ordered |-> ordered, items |-> items]
ListItem(spans, list) == [spans |-> spans, list |-> list]

Header(prims, level, id) ==
    [k |-> "Header", prims |-> prims, level |-> level, id |-> id]
Blockquote(lines) == [k |-> "Blockquote", lines |-> lines]
ListElement(list) == [k |-> "ListElement", list |-> list]
Image(ttl, url) == [k |-> "Image", title |-> ttl, url |-> url]
LinkCard(ttl, image, url, description, site_name) ==
    [k |-> "LinkCard", title |-> ttl, image |-> image, url |-> url,
     description |-> description, site_name |-> site_name]
MathBlock(math) == [k |-> "MathBlock", math |-> math]
CodeBlock(lang, code) == [k |-> "CodeBlock", lang |-> lang, code |-> code]
Table(head, body) == [k |-> "Table", head |-> head, body |-> body]
Paragraph(spans) == [k |-> "Paragraph", spans |-> spans]

(***************************************************************************)
(* Results of the parsing functions                                        *)
(***************************************************************************)
Ok(s, val, calls) == [st |-> "ok", chs |-> s, val |-> val, calls |-> calls]
Hang == [st |-> "hang"]
Panic == [st |-> "panic"]

\* K applied to the value r: a value a function computes once and then uses
Then(r, K(_)) == K(r)

(***************************************************************************)
(* The network                                                             *)
(***************************************************************************)
NetStates == {"down", "up"}

\* the page title the network serves; the source copies it unescaped
PageTitle == <<"T", "<">>

get_title(url) == IF net = "up" THEN PageTitle ELSE <<>>

get_ogp_info(url) ==
    IF net = "up"
    THEN [title |-> PageTitle, image |-> <<"i">>, description |-> <<"d">>,
          site_name |-> <<"n">>]
    ELSE [title |-> <<>>, image |-> None, description |-> None,
          site_name |-> None]

(***************************************************************************)
(* Scanner                                                                 *)
(***************************************************************************)
next_char(s) ==
    IF s # <<>> THEN [c |-> Head(s), chs |-> Tail(s)]
    ELSE [c |-> None, chs |-> s]

next_char_until(s, until) ==
    IF StartsWith(s, until) THEN [c |-> None, chs |-> Drop(s, Len(until))]
    ELSE IF s # <<>> THEN [c |-> Head(s), chs |-> Tail(s)]
    ELSE [c |-> None, chs |-> s]

next_char_until_newline(s) ==
    IF StartsWith(s, <<"\n">>) THEN [c |-> None, chs |-> Drop(s, 1)]
    ELSE IF StartsWith(s, <<"\r", "\n">>) THEN [c |-> None, chs |-> Drop(s, 2)]
    ELSE IF s # <<>> THEN [c |-> Head(s), chs |-> Tail(s)]
    ELSE [c |-> None, chs |-> s]

starts_with_next(s, prefix) ==
    IF StartsWith(s, prefix) THEN [ok |-> TRUE, chs |-> Drop(s, Len(prefix))]
    ELSE [ok |-> FALSE, chs |-> s]

starts_with_newline_next(s) ==
    IF StartsWith(s, <<"\n">>) THEN [ok |-> TRUE, chs |-> Drop(s, 1)]
    ELSE IF StartsWith(s, <<"\r", "\n">>) THEN [ok |-> TRUE, chs |-> Drop(s, 2)]
    ELSE [ok |-> FALSE, chs |-> s]

escape_lt_only(c) == IF c = "<" THEN <<"&", "l", "t", ";">> ELSE <<c>>

escape(c) ==
    CASE c = "<" -> <<"&", "l", "t", ";">>
      [] c = ">" -> <<"&", "g", "t", ";">>
      [] OTHER -> <<c>>

(***************************************************************************)
(* Primitives                                                              *)
(***************************************************************************)
\* the loop of parse_math, parse_code, parse_math_block and parse_code_block:
\* while let Some(c) = self.next_char_until(until) { acc.push_str(&self.escape(c)); }
RECURSIVE escape_until(_, _, _)
escape_until(s, until, acc) ==
    Then(next_char_until(s, until), LAMBDA r :
        IF r.c # None THEN escape_until(r.chs, until, acc \o escape(r.c))
        ELSE [chs |-> r.chs, str |-> acc])

parse_math(s) ==
    Then(escape_until(s, <<"$">>, <<>>), LAMBDA r :
        Ok(r.chs, Math(r.str), <<>>))

parse_code(s) ==
    Then(escape_until(s, <<Backtick>>, <<>>), LAMBDA r :
        Ok(r.chs, Code(r.str), <<>>))

TextStops ==
    { <<"*", "*">>, <<"_", "_">>, <<"[">>, <<"]">>, <<"$">>, <<Backtick>>,
      <<"\n">>, <<"\r", "\n">> }

RECURSIVE parse_text_loop(_, _)
parse_text_loop(s, text) ==
    IF \E prefix \in TextStops : StartsWith(s, prefix)
    THEN Ok(s, Text(text), <<>>)
    ELSE Then(next_char_until_newline(s), LAMBDA r :
             IF r.c # None THEN parse_text_loop(r.chs, text \o escape(r.c))
             ELSE Ok(r.chs, Text(text), <<>>))

parse_text(s) == parse_text_loop(s, <<>>)

parse_subprimary(s) ==
    IF StartsWith(s, <<"$">>) THEN parse_math(Drop(s, 1))
    ELSE IF StartsWith(s, <<Backtick>>) THEN parse_code(Drop(s, 1))
    ELSE parse_text(s)

\* while !self.starts_with_next("](") { text.push(self.parse_subprimary()); }
RECURSIVE parse_link_text(_, _)
parse_link_text(s, text) ==
    IF StartsWith(s, <<"]", "(">>) THEN Ok(Drop(s, 2), text, <<>>)
    ELSE Then(parse_subprimary(s), LAMBDA r :
             IF r.chs = s THEN Hang
             ELSE parse_link_text(r.chs, Append(text, r.val)))

\* while !self.starts_with_next(")") { ... self.next_char_until_newline() ... }
RECURSIVE parse_link_url(_, _)
parse_link_url(s, url) ==
    IF StartsWith(s, <<")">>) THEN [chs |-> Drop(s, 1), str |-> url]
    ELSE Then(next_char_until_newline(s), LAMBDA r :
             IF r.c # None THEN parse_link_url(r.chs, Append(url, r.c))
             ELSE [chs |-> r.chs, str |-> url])

\* the events: get_title was called with url, parse_link returned link
Called(url) == [ev |-> "get_title", url |-> url]
Returned(link) == [ev |-> "parse_link", link |-> link]

link_text_unresolved(text, url) == [text |-> text, calls |-> <<>>]

\* if text.is_empty() { text = vec![ Text { text: get_title(&url) } ]; }
link_text(text, url) ==
    IF text = <<>>
    THEN [text |-> <<Text(get_title(url))>>, calls |-> <<Called(url)>>]
    ELSE [text |-> text, calls |-> <<>>]

parse_link(s) ==
    Then(parse_link_text(s, <<>>), LAMBDA t :
        IF t.st # "ok" THEN t
        ELSE Then(parse_link_url(t.chs, <<>>), LAMBDA u :
                 Then(link_text(t.val, u.str), LAMBDA f :
                     Ok(u.chs, Link(f.text, u.str),
                        Append(f.calls, Returned(Link(f.text, u.str)))))))

parse_primary(s) ==
    IF StartsWith(s, <<"[">>) THEN parse_link(Drop(s, 1))
    ELSE parse_subprimary(s)

(***************************************************************************)
(* Spans                                                                   *)
(***************************************************************************)
AsSpan(r) == IF r.st = "ok" THEN Ok(r.chs, PrimElem(r.val), r.calls) ELSE r

RECURSIVE parse_bold(_), parse_italic(_)
RECURSIVE parse_bold_loop(_, _, _), parse_italic_loop(_, _, _)

\* while !self.starts_with_next("**") { text.push(self.parse_italic()); }
parse_bold_loop(s, text, calls) ==
    IF StartsWith(s, <<"*", "*">>) THEN Ok(Drop(s, 2), Bold(text), calls)
    ELSE Then(parse_italic(s), LAMBDA r :
             IF r.st # "ok" THEN r
             ELSE IF r.chs = s THEN Hang
             ELSE parse_bold_loop(r.chs, Append(text, r.val), calls \o r.calls))

\* while !self.starts_with_next("__") { text.push(self.parse_bold()); }
parse_italic_loop(s, text, calls) ==
    IF StartsWith(s, <<"_", "_">>) THEN Ok(Drop(s, 2), Ital(text), calls)
    ELSE Then(parse_bold(s), LAMBDA r :
             IF r.st # "ok" THEN r
             ELSE IF r.chs = s THEN Hang
             ELSE parse_italic_loop(r.chs, Append(text, r.val), calls \o r.calls))

parse_bold(s) ==
    IF StartsWith(s, <<"*", "*">>) THEN parse_bold_loop(Drop(s, 2), <<>>, <<>>)
    ELSE AsSpan(parse_primary(s))

parse_italic(s) ==
    IF StartsWith(s, <<"_", "_">>) THEN parse_italic_loop(Drop(s, 2), <<>>, <<>>)
    ELSE AsSpan(parse_primary(s))

\* the span at s: bold, italic or primary
parse_span(s) ==
    IF StartsWith(s, <<"*", "*">>) THEN parse_bold(s)
    ELSE IF StartsWith(s, <<"_", "_">>) THEN parse_italic(s)
    ELSE AsSpan(parse_primary(s))

\* while !self.chs.is_empty() && !self.starts_with_newline_next() { ... }
RECURSIVE parse_spans_loop(_, _, _)
parse_spans_loop(s, spans, calls) ==
    IF s = <<>> THEN Ok(s, spans, calls)
    ELSE Then(starts_with_newline_next(s), LAMBDA n :
        IF n.ok THEN Ok(n.chs, spans, calls)
        ELSE Then(parse_span(s), LAMBDA r :
                 IF r.st # "ok" THEN r
                 ELSE IF r.chs = s THEN Hang
                 ELSE parse_spans_loop(r.chs, Append(spans, r.val),
                                       calls \o r.calls)))

parse_spans(s) == parse_spans_loop(s, <<>>, <<>>)

(***************************************************************************)
(* Blocks                                                                  *)
(***************************************************************************)
\* while !self.starts_with_newline_next() { header_cont.push(self.parse_primary()); }
RECURSIVE parse_header_cont(_, _, _)
parse_header_cont(s, header_cont, calls) ==
    Then(starts_with_newline_next(s), LAMBDA n :
        IF n.ok THEN Ok(n.chs, header_cont, calls)
        ELSE Then(parse_primary(s), LAMBDA r :
                 IF r.st # "ok" THEN r
                 ELSE IF r.chs = s THEN Hang
                 ELSE parse_header_cont(r.chs, Append(header_cont, r.val),
                                        calls \o r.calls)))

\* for prim in &header_cont: a Link gives the prims of its text, others themselves
RECURSIVE header_toc(_)
header_toc(header_cont) ==
    IF header_cont = <<>> THEN <<>>
    ELSE (IF Head(header_cont).k = "Link" THEN Head(header_cont).text
          ELSE <<Head(header_cont)>>) \o header_toc(Tail(header_cont))

\* for prim in &header_toc: Math, Code and Text are appended, others skipped
RECURSIVE header_id(_)
header_id(prims) ==
    IF prims = <<>> THEN <<>>
    ELSE (CASE Head(prims).k = "Math" -> Head(prims).math
            [] Head(prims).k = "Code" -> Head(prims).code
            [] Head(prims).k = "Text" -> Head(prims).text
            [] OTHER -> <<>>) \o header_id(Tail(prims))

\* MultiSet::new
multiset_new == [x \in {} |-> 0]

multiset_count(set, x) == IF x \in DOMAIN set THEN set[x] ELSE 0

\* MultiSet::insert: the number of earlier insertions of x, and the set after it
multiset_insert(set, x) ==
    [count |-> multiset_count(set, x),
     set |-> [y \in DOMAIN set \cup {x} |->
                 IF y = x THEN multiset_count(set, x) + 1 ELSE set[y]]]

suffixed_id_from_second(id, count) ==
    IF count > 1 THEN id \o <<"-">> \o to_string(count) ELSE id

\* if count > 0 { header_id = format!("{}-{}", &header_id, count); }
suffixed_id(id, count) ==
    IF count > 0 THEN id \o <<"-">> \o to_string(count) ELSE id

toc_descents_from_3(level) == IF level > 3 THEN level - 3 ELSE 0

\* for _ in 2..level: the number of iterations
toc_descents(level) == IF level > 2 THEN level - 2 ELSE 0

\* cur = &mut cur.items.last_mut().unwrap().list, n times; cur.items.push(item)
RECURSIVE toc_push(_, _, _)
toc_push(cur, n, item) ==
    IF n = 0
    THEN [st |-> "ok", list |-> List(cur.ordered, Append(cur.items, item))]
    ELSE IF cur.items = <<>> THEN Panic
    ELSE Then(toc_push(cur.items[Len(cur.items)].list, n - 1, item), LAMBDA r :
             IF r.st # "ok" THEN r
             ELSE [st |-> "ok",
                   list |-> List(cur.ordered,
                                 [cur.items EXCEPT ![Len(cur.items)] =
                                     ListItem(@.spans, r.list)])])

toc_entry(prims, id) ==
    ListItem(<<PrimElem(Link(prims, <<"#">> \o id))>>, List(TRUE, <<>>))

\* a block result with the parser fields the block left behind
WithFields(r, hdrs, ttl, t) ==
    IF r.st # "ok" THEN r
    ELSE [st |-> "ok", chs |-> r.chs, val |-> r.val, calls |-> r.calls,
          headers |-> hdrs, title |-> ttl, toc |-> t]

header_of_first_title(c, level, prims, id) ==
    IF level = 1
    THEN WithFields(Ok(c.chs, Header(c.val, level, id), c.calls),
                    headers, IF title = <<>> THEN id ELSE title, toc)
    ELSE Then(multiset_insert(headers, id), LAMBDA ins :
         Then(suffixed_id(id, ins.count), LAMBDA uid :
         Then(toc_push(toc, toc_descents(level), toc_entry(prims, uid)), LAMBDA p :
             IF p.st # "ok" THEN p
             ELSE WithFields(Ok(c.chs, Header(c.val, level, uid), c.calls),
                             ins.set, title, p.list))))

\* the header whose content c was parsed: lines 109-147
header_of(c, level, prims, id) ==
    IF level = 1
    THEN WithFields(Ok(c.chs, Header(c.val, level, id), c.calls),
                    headers, id, toc)
    ELSE Then(multiset_insert(headers, id), LAMBDA ins :
         Then(suffixed_id(id, ins.count), LAMBDA uid :
         Then(toc_push(toc, toc_descents(level), toc_entry(prims, uid)), LAMBDA p :
             IF p.st # "ok" THEN p
             ELSE WithFields(Ok(c.chs, Header(c.val, level, uid), c.calls),
                             ins.set, title, p.list))))

parse_header(s, level) ==
    Then(parse_header_cont(s, <<>>, <<>>), LAMBDA c :
        IF c.st # "ok" THEN c
        ELSE header_of(c, level, header_toc(c.val), header_id(header_toc(c.val))))

\* while self.starts_with_next("> ") { lines.push(self.parse_spans()); }
RECURSIVE parse_blockquote_loop(_, _, _)
parse_blockquote_loop(s, lines, calls) ==
    IF StartsWith(s, <<">", " ">>)
    THEN Then(parse_spans(Drop(s, 2)), LAMBDA r :
             IF r.st # "ok" THEN r
             ELSE parse_blockquote_loop(r.chs, Append(lines, r.val),
                                        calls \o r.calls))
    ELSE Ok(s, Blockquote(lines), calls)

parse_blockquote(s) == parse_blockquote_loop(s, <<>>, <<>>)

\* while let Some(rest) = chs.strip_prefix(" ") { chs = rest; indent += 1; }
RECURSIVE count_indent(_)
count_indent(s) ==
    IF StartsWith(s, <<" ">>) THEN 1 + count_indent(Tail(s)) ELSE 0

child_min_indent_same(indent) == indent

\* self.parse_list(indent + 1)
child_min_indent(indent) == indent + 1

RECURSIVE parse_list(_, _), parse_list_loop(_, _, _, _, _)

\* items.push(ListItem { spans: self.parse_spans(), list: self.parse_list(indent + 1) })
parse_list_item(s, min_indent, ordered, items, calls, indent) ==
    Then(parse_spans(s), LAMBDA sp :
        IF sp.st # "ok" THEN sp
        ELSE Then(parse_list(sp.chs, child_min_indent(indent)), LAMBDA child :
                 IF child.st # "ok" THEN child
                 ELSE parse_list_loop(child.chs, min_indent, ordered,
                                      Append(items, ListItem(sp.val, child.val)),
                                      calls \o sp.calls \o child.calls)))

parse_list_line_first_marker(s, min_indent, ordered, items, calls, indent) ==
    IF min_indent <= indent
    THEN IF StartsWith(Drop(s, indent), <<"-", " ">>)
         THEN parse_list_item(Drop(s, indent + 2), min_indent,
                              IF items = <<>> THEN FALSE ELSE ordered, items,
                              calls, indent)
         ELSE IF StartsWith(Drop(s, indent), <<"+", " ">>)
         THEN parse_list_item(Drop(s, indent + 2), min_indent,
                              IF items = <<>> THEN TRUE ELSE ordered, items,
                              calls, indent)
         ELSE Ok(Drop(s, indent), List(ordered, items), calls)
    ELSE Ok(s, List(ordered, items), calls)

\* one iteration of the loop of parse_list, the indent counted
parse_list_line(s, min_indent, ordered, items, calls, indent) ==
    IF min_indent <= indent
    THEN IF StartsWith(Drop(s, indent), <<"-", " ">>)
         THEN parse_list_item(Drop(s, indent + 2), min_indent, FALSE, items,
                              calls, indent)
         ELSE IF StartsWith(Drop(s, indent), <<"+", " ">>)
         THEN parse_list_item(Drop(s, indent + 2), min_indent, TRUE, items,
                              calls, indent)
         ELSE Ok(Drop(s, indent), List(ordered, items), calls)
    ELSE Ok(s, List(ordered, items), calls)

\* while !self.chs.is_empty() { ... }
parse_list_loop(s, min_indent, ordered, items, calls) ==
    IF s = <<>> THEN Ok(s, List(ordered, items), calls)
    ELSE parse_list_line(s, min_indent, ordered, items, calls, count_indent(s))

parse_list(s, min_indent) == parse_list_loop(s, min_indent, FALSE, <<>>, <<>>)

\* while let Some(c) = self.next_char_until(until) { url.push(c); }
RECURSIVE raw_until(_, _, _)
raw_until(s, until, acc) ==
    Then(next_char_until(s, until), LAMBDA r :
        IF r.c # None THEN raw_until(r.chs, until, Append(acc, r.c))
        ELSE [chs |-> r.chs, str |-> acc])

\* while let Some(c) = self.next_char_until_newline() { lang.push(c); }
RECURSIVE raw_until_newline(_, _)
raw_until_newline(s, acc) ==
    Then(next_char_until_newline(s), LAMBDA r :
        IF r.c # None THEN raw_until_newline(r.chs, Append(acc, r.c))
        ELSE [chs |-> r.chs, str |-> acc])

\* while !self.starts_with_next("](") { text.push(self.parse_primary()); }
RECURSIVE parse_embed_text(_, _, _)
parse_embed_text(s, text, calls) ==
    IF StartsWith(s, <<"]", "(">>) THEN Ok(Drop(s, 2), text, calls)
    ELSE Then(parse_primary(s), LAMBDA r :
             IF r.st # "ok" THEN r
             ELSE IF r.chs = s THEN Hang
             ELSE parse_embed_text(r.chs, Append(text, r.val), calls \o r.calls))

\* the Image or LinkCard for the text and the url parsed: lines 205-211
embed_of(s, text, calls, url, info) ==
    IF EndsWith(url, <<".", "p", "n", "g">>) \/ EndsWith(url, <<".", "j", "p", "g">>)
    THEN Ok(s, Image(text, url), calls)
    ELSE Ok(s, LinkCard(info.title, info.image, url, info.description,
                        info.site_name), calls)

parse_embed(s) ==
    Then(parse_embed_text(s, <<>>, <<>>), LAMBDA t :
        IF t.st # "ok" THEN t
        ELSE Then(raw_until(t.chs, <<")">>, <<>>), LAMBDA u :
                 embed_of(u.chs, t.val, t.calls, u.str, get_ogp_info(u.str))))

parse_math_block(s) ==
    Then(escape_until(s, <<"$", "$">>, <<>>), LAMBDA r :
        Ok(r.chs, MathBlock(r.str), <<>>))

parse_code_block(s) ==
    Then(raw_until_newline(s, <<>>), LAMBDA lang :
        Then(escape_until(lang.chs, <<Backtick, Backtick, Backtick>>, <<>>),
             LAMBDA code : Ok(code.chs, CodeBlock(lang.str, code.str), <<>>)))

\* loop { match self.next_char() { Some('|') => break, Some(c) => push, None => break } }
RECURSIVE parse_table_data(_, _)
parse_table_data(s, data) ==
    Then(next_char(s), LAMBDA r :
        IF r.c = None \/ r.c = "|" THEN [chs |-> r.chs, str |-> data]
        ELSE parse_table_data(r.chs, data \o escape(r.c)))

\* while !self.chs.is_empty() && !self.starts_with_newline_next() { ... }
RECURSIVE parse_table_cells(_, _)
parse_table_cells(s, row) ==
    IF s = <<>> THEN [chs |-> s, row |-> row]
    ELSE Then(starts_with_newline_next(s), LAMBDA n :
        IF n.ok THEN [chs |-> n.chs, row |-> row]
        ELSE Then(parse_table_data(s, <<>>), LAMBDA d :
                 parse_table_cells(d.chs,
                                   Append(row, trim_end(trim_start(d.str))))))

\* row.iter().all(|s| s.chars().all(|c| c == '-'))
is_separator(row) ==
    \A i \in 1..Len(row) : \A j \in 1..Len(row[i]) : row[i][j] = "-"

\* the row (None for no row and for a separator row) and the cursor after it
parse_table_row(s) ==
    IF ~StartsWith(s, <<"|">>) THEN [chs |-> s, row |-> None]
    ELSE Then(parse_table_cells(Drop(s, 1), <<>>), LAMBDA r :
             IF is_separator(r.row) THEN [chs |-> r.chs, row |-> None] ELSE r)

\* while let Some(row) = self.parse_table_row() { rows.push(row); }
RECURSIVE parse_table_rows(_, _)
parse_table_rows(s, rows) ==
    Then(parse_table_row(s), LAMBDA r :
        IF r.row = None THEN [chs |-> r.chs, rows |-> rows]
        ELSE parse_table_rows(r.chs, Append(rows, r.row)))

parse_table(s) ==
    Then(parse_table_rows(s, <<>>), LAMBDA head :
        Then(parse_table_rows(head.chs, <<>>), LAMBDA body :
            Ok(body.chs, Table(head.rows, body.rows), <<>>)))

parse_paragraph(s) ==
    Then(parse_spans(s), LAMBDA r :
        IF r.st # "ok" THEN r ELSE Ok(r.chs, Paragraph(r.val), r.calls))

\* ListElement(self.parse_list(0))
parse_list_element(s) ==
    Then(parse_list(s, 0), LAMBDA r :
        IF r.st # "ok" THEN r ELSE Ok(r.chs, ListElement(r.val), r.calls))

\* "#" level times and a space
RECURSIVE header_prefix(_)
header_prefix(level) ==
    IF level = 0 THEN <<" ">> ELSE <<"#">> \o header_prefix(level - 1)

parse_block(s) ==
    IF StartsWith(s, header_prefix(1)) THEN parse_header(Drop(s, 2), 1)
    ELSE IF StartsWith(s, header_prefix(2)) THEN parse_header(Drop(s, 3), 2)
    ELSE IF StartsWith(s, header_prefix(3)) THEN parse_header(Drop(s, 4), 3)
    ELSE IF StartsWith(s, header_prefix(4)) THEN parse_header(Drop(s, 5), 4)
    ELSE IF StartsWith(s, header_prefix(5)) THEN parse_header(Drop(s, 6), 5)
    ELSE IF StartsWith(s, header_prefix(6)) THEN parse_header(Drop(s, 7), 6)
    ELSE WithFields(
             IF StartsWith(s, <<">", " ">>) THEN parse_blockquote(s)
             ELSE IF StartsWith(s, <<"+", " ">>) \/ StartsWith(s, <<"-", " ">>)
             THEN parse_list_element(s)
             ELSE IF StartsWith(s, <<"@", "[">>) THEN parse_embed(Drop(s, 2))
             ELSE IF StartsWith(s, <<"$", "$">>) THEN parse_math_block(Drop(s, 2))
             ELSE IF StartsWith(s, <<Backtick, Backtick, Backtick>>)
             THEN parse_code_block(Drop(s, 3))
             ELSE IF StartsWith(s, <<"|">>) THEN parse_table(s)
             ELSE parse_paragraph(s),
             headers, title, toc)

push_block_always(blocks, block) == Append(blocks, block)

\* match block { Paragraph { spans } if spans.is_empty() => {}, _ => push }
push_block(blocks, block) ==
    IF block.k = "Paragraph" /\ block.spans = <<>> THEN blocks
    ELSE Append(blocks, block)

(***************************************************************************)
(* The state machine                                                       *)
(***************************************************************************)
SeqsUpTo(S, n) == UNION { [1..k -> S] : k \in 0..n }

RECURSIVE Concat(_)
Concat(pieces) ==
    IF pieces = <<>> THEN <<>> ELSE Head(pieces) \o Concat(Tail(pieces))

\* Parser::new(doc), for a text built of at most n of the pieces
InitOver(pieces, n) ==
    /\ \E d \in SeqsUpTo(pieces, n) : doc = Concat(d)
    /\ chs = doc
    /\ headers = multiset_new
    /\ title = <<>>
    /\ toc = List(TRUE, <<>>)
    /\ content = <<>>
    /\ pc = "run"
    /\ net \in NetStates
    /\ events = <<>>

\* one iteration of the loop of parse_markdown
ParseBlock ==
    /\ pc = "run"
    /\ chs # <<>>
    /\ Then(parse_block(chs), LAMBDA r :
           IF r.st = "ok"
           THEN /\ chs' = r.chs
                /\ headers' = r.headers
                /\ title' = r.title
                /\ toc' = r.toc
                /\ content' = push_block(content, r.val)
                /\ events' = events \o r.calls
                /\ pc' = "run"
           ELSE /\ pc' = r.st
                /\ UNCHANGED <<chs, headers, title, toc, content, events>>)
    /\ UNCHANGED <<doc, net>>

\* the loop of parse_markdown ends and the function returns
Return ==
    /\ pc = "run"
    /\ chs = <<>>
    /\ pc' = "done"
    /\ UNCHANGED <<doc, chs, headers, title, toc, content, net, events>>

Next == ParseBlock \/ Return

(***************************************************************************)
(* Specifications: the same parser over different families of input text   *)
(***************************************************************************)
MaxPieces == 5

\* inline text, links and embeds
InlinePieces ==
    { <<"a">>, <<"[">>, <<"]", "(">>, <<")">>, <<"]">>, <<"\n">>, <<"$">>,
      <<"@", "[">> }

Init == InitOver(InlinePieces, MaxPieces)

Spec == Init /\ [][Next]_vars

MaxHeaderLines == 4

\* headings of levels 1 to 3, with equal and with suffix-like texts
HeaderLines ==
    { <<"#", " ", "a", "\n">>,
      <<"#", " ", "b", "\n">>,
      <<"#", "#", " ", "a", "\n">>,
      <<"#", "#", " ", "a", "-", "1", "\n">>,
      <<"#", "#", "#", " ", "a", "\n">>,
      <<"#", "#", " ", "a">>,
      <<"a", "\n">> }

InitHeader == InitOver(HeaderLines, MaxHeaderLines)

SpecHeader == InitHeader /\ [][Next]_vars

MaxTocLines == 5

\* headings of every level
TocLines ==
    { <<"#", " ", "a", "\n">>,
      <<"#", "#", " ", "a", "\n">>,
      <<"#", "#", "#", " ", "a", "\n">>,
      <<"#", "#", "#", "#", " ", "a", "\n">>,
      <<"#", "#", "#", "#", "#", " ", "a", "\n">>,
      <<"#", "#", "#", "#", "#", "#", " ", "a", "\n">> }

InitToc == InitOver(TocLines, MaxTocLines)

SpecToc == InitToc /\ [][Next]_vars

MaxTableLines == 4

\* table rows, separator rows and a row without a closing "|"
TableLines ==
    { <<"|", "a", "|", "\n">>,
      <<"|", "b", "|", "\n">>,
      <<"|", "-", "|", "\n">>,
      <<"|", " ", "-", "-", " ", "|", "-", "|", "\n">>,
      <<"|", "a", "|", "b", "\n">> }

InitTable == InitOver(TableLines, MaxTableLines)

SpecTable == InitTable /\ [][Next]_vars

MaxEscapePieces == 4

\* angle brackets in text, code, math, blocks of them, table cells and links
EscapePieces ==
    { <<"<">>, <<">">>, <<"a">>, <<"\n">>, <<"$">>, <<Backtick>>, <<"|">>,
      <<"$", "$">>, <<Backtick, Backtick, Backtick>>, <<"[">>, <<"]", "(">> }

InitEscape == InitOver(EscapePieces, MaxEscapePieces)

SpecEscape == InitEscape /\ [][Next]_vars

MaxListLines == 4

\* list items of both markers at indents 0 to 3
ListLines ==
    { <<"-", " ", "a", "\n">>,
      <<"+", " ", "b", "\n">>,
      <<" ", "-", " ", "a", "\n">>,
      <<" ", " ", "-", " ", "b", "\n">>,
      <<" ", " ", "+", " ", "a", "\n">>,
      <<" ", " ", " ", "-", " ", "b", "\n">> }

InitList == InitOver(ListLines, MaxListLines)

SpecList == InitList /\ [][Next]_vars

MaxEmphasisPieces == 5

\* bold and italic markers around and inside text
EmphasisPieces == { <<"*", "*">>, <<"_", "_">>, <<"a">>, <<"\n">> }

InitEmphasis == InitOver(EmphasisPieces, MaxEmphasisPieces)

SpecEmphasis == InitEmphasis /\ [][Next]_vars

(***************************************************************************)
(* What the parse produced                                                 *)
(***************************************************************************)
\* the positions in content of the headers of level 2 and more
Headings ==
    { i \in 1..Len(content) : content[i].k = "Header" /\ content[i].level >= 2 }

\* the identifier derived from the text of the header at i, before any suffix
Base(i) == header_id(header_toc(content[i].prims))

\* the earlier headers of level 2 and more with the base of the header at i
EarlierUses(i) == Cardinality({ j \in Headings : j < i /\ Base(j) = Base(i) })

\* the primitives of a span sequence, those inside bold and italic included
RECURSIVE SpansPrims(_)
SpansPrims(spans) ==
    IF spans = <<>> THEN <<>>
    ELSE (IF Head(spans).k = "PrimElem" THEN <<Head(spans).prim>>
          ELSE SpansPrims(Head(spans).text)) \o SpansPrims(Tail(spans))

\* the primitives of the items of a list from item i on, depth first
RECURSIVE ItemsPrims(_, _)
ItemsPrims(items, i) ==
    IF i > Len(items) THEN <<>>
    ELSE SpansPrims(items[i].spans) \o ItemsPrims(items[i].list.items, 1)
         \o ItemsPrims(items, i + 1)

RECURSIVE LinesPrims(_)
LinesPrims(lines) ==
    IF lines = <<>> THEN <<>>
    ELSE SpansPrims(Head(lines)) \o LinesPrims(Tail(lines))

BlockPrims(block) ==
    CASE block.k = "Header" -> block.prims
      [] block.k = "Paragraph" -> SpansPrims(block.spans)
      [] block.k = "Blockquote" -> LinesPrims(block.lines)
      [] block.k = "ListElement" -> ItemsPrims(block.list.items, 1)
      [] block.k = "Image" -> block.title
      [] OTHER -> <<>>

\* the primitives of content from block i on, in document order
RECURSIVE ContentPrims(_)
ContentPrims(i) ==
    IF i > Len(content) THEN <<>>
    ELSE BlockPrims(content[i]) \o ContentPrims(i + 1)

IsLink(prim) == prim.k = "Link"

\* the links of content, in document order
Links == SelectSeq(ContentPrims(1), IsLink)

(***************************************************************************)
(* C1: for every input text parse_markdown terminates, and when it returns *)
(* the cursor is at the end of the input.                                  *)
(***************************************************************************)
C1_TerminatesAtEnd == pc # "hang" /\ (pc = "done" => chs = <<>>)

(***************************************************************************)
(* C2: no input text drives the parser into a panic; in particular a       *)
(* heading of level 3 or more never fails, whatever headings preceded it.  *)
(***************************************************************************)
C2_NeverPanics == pc # "panic"

(***************************************************************************)
(* C3: the ids of the headings of level 2 and more are pairwise distinct.  *)
(***************************************************************************)
C3_DistinctIds ==
    \A i, j \in Headings : i # j => content[i].id # content[j].id

(***************************************************************************)
(* C4: a heading of level 2 or more whose base identifier was derived by n *)
(* earlier headings of level 2 or more gets the id base-n when n >= 1 and  *)
(* the bare base when n = 0, and the registry then counts n+1 uses of the  *)
(* base; headings of level 1 are not counted.                              *)
(***************************************************************************)
C4_SuffixIsUseCount ==
    /\ \A i \in Headings :
          content[i].id =
              IF EarlierUses(i) = 0 THEN Base(i)
              ELSE Base(i) \o <<"-">> \o to_string(EarlierUses(i))
    /\ DOMAIN headers = { Base(i) : i \in Headings }
    /\ \A i \in Headings :
          headers[Base(i)] = Cardinality({ j \in Headings : Base(j) = Base(i) })

\* a third use of a base, after a level-1 heading of the same text
C4_Witness ==
    /\ \E i \in Headings : EarlierUses(i) = 2
    /\ \E j \in 1..Len(content) :
          /\ content[j].k = "Header" /\ content[j].level = 1
          /\ \E i \in Headings : j < i /\ Base(i) = content[j].id

(***************************************************************************)
(* C5: each parsed heading of level L, 2 <= L <= 6, adds exactly one entry *)
(* to the TOC, L-2 levels below the root, under the last item of every     *)
(* level above it; the TOC holds one entry per heading of level 2 or more, *)
(* in document order.                                                      *)
(***************************************************************************)
\* the entries of a TOC list from item i on, depth first, each with its depth
RECURSIVE TocEntriesFrom(_, _, _)
TocEntriesFrom(items, i, depth) ==
    IF i > Len(items) THEN <<>>
    ELSE <<[depth |-> depth,
            url |-> items[i].spans[1].prim.url,
            text |-> items[i].spans[1].prim.text]>>
         \o TocEntriesFrom(items[i].list.items, 1, depth + 1)
         \o TocEntriesFrom(items, i + 1, depth)

\* the entries the headings of content from position i on ask for
RECURSIVE HeadingEntriesFrom(_)
HeadingEntriesFrom(i) ==
    IF i > Len(content) THEN <<>>
    ELSE (IF i \in Headings
          THEN <<[depth |-> content[i].level - 2,
                  url |-> <<"#">> \o content[i].id,
                  text |-> header_toc(content[i].prims)]>>
          ELSE <<>>) \o HeadingEntriesFrom(i + 1)

C5_TocFollowsHeadings ==
    TocEntriesFrom(toc.items, 1, 0) = HeadingEntriesFrom(1)

\* headings of the levels 2 to 6 were parsed, the last one four levels down
C5_Witness ==
    /\ pc = "done"
    /\ \A level \in 2..6 : \E i \in Headings : content[i].level = level
    /\ \E e \in 1..Len(TocEntriesFrom(toc.items, 1, 0)) :
          TocEntriesFrom(toc.items, 1, 0)[e].depth = 4

(***************************************************************************)
(* C6: every Link has a non-empty text: when nothing was parsed between    *)
(* "[" and "](" the text is one Text holding the title the resolver        *)
(* returned for the URL of the link (possibly empty), and the resolver is  *)
(* called in that case and in no other.                                    *)
(***************************************************************************)
\* the links parse_link returned, in order
Made == SelectSeq(events, LAMBDA e : e.ev = "parse_link")

\* the calls of get_title, in order
Calls == SelectSeq(events, LAMBDA e : e.ev = "get_title")

\* the text of the returned link is the title the network serves for its URL
IsResolved(e) == e.link.text = <<Text(get_title(e.link.url))>>

C6_EmptyLinkTextResolved ==
    /\ \A i \in 1..Len(Made) : Made[i].link.text # <<>>
    /\ [i \in 1..Len(Calls) |-> Calls[i].url]
         = [i \in 1..Len(SelectSeq(Made, IsResolved)) |->
               SelectSeq(Made, IsResolved)[i].link.url]

\* a link written without text was resolved to the empty title
C6_Witness ==
    /\ net = "down"
    /\ Calls = <<Called(<<"a">>)>>
    /\ \E i \in 1..Len(Made) : Made[i].link = Link(<<Text(<<>>)>>, <<"a">>)
    /\ \E i \in 1..Len(Links) : Links[i] = Link(<<Text(<<>>)>>, <<"a">>)

(***************************************************************************)
(* C7: in a run of consecutive lines starting with "|", the first          *)
(* separator row ends the header section, the rows before it are the head  *)
(* rows and the rows after it the body rows of the same Table, and no      *)
(* separator row is a head or a body row; for any number of separator rows *)
(* and for rows without a closing "|".                                     *)
(***************************************************************************)
\* the pieces of s between the occurrences of the character sep
RECURSIVE SplitFrom(_, _, _, _)
SplitFrom(s, sep, pieces, piece) ==
    IF s = <<>> THEN Append(pieces, piece)
    ELSE IF Head(s) = sep THEN SplitFrom(Tail(s), sep, Append(pieces, piece), <<>>)
    ELSE SplitFrom(Tail(s), sep, pieces, Append(piece, Head(s)))

Split(s, sep) == SplitFrom(s, sep, <<>>, <<>>)

\* a sequence without a last element that is empty
DropEmptyLast(pieces) ==
    IF pieces # <<>> /\ pieces[Len(pieces)] = <<>>
    THEN SubSeq(pieces, 1, Len(pieces) - 1) ELSE pieces

\* the lines of the input, without their line endings
DocLines == DropEmptyLast(Split(doc, "\n"))

\* the cells of a table line: the trimmed text between its "|"
RowOf(line) ==
    [i \in 1..Len(DropEmptyLast(Split(Tail(line), "|"))) |->
        trim_end(trim_start(DropEmptyLast(Split(Tail(line), "|"))[i]))]

IsSeparatorLine(line) == is_separator(RowOf(line))

\* the index of the first separator line, or one past the last line
FirstSeparator ==
    IF \E i \in 1..Len(DocLines) : IsSeparatorLine(DocLines[i])
    THEN CHOOSE i \in 1..Len(DocLines) :
             /\ IsSeparatorLine(DocLines[i])
             /\ \A j \in 1..(i - 1) : ~IsSeparatorLine(DocLines[j])
    ELSE Len(DocLines) + 1

RowsOf(lines) == [i \in 1..Len(lines) |-> RowOf(lines[i])]

NotSeparatorLine(line) == ~IsSeparatorLine(line)

C7_OneTablePerRun ==
    (/\ pc = "done"
     /\ DocLines # <<>>
     /\ \A i \in 1..Len(DocLines) : StartsWith(DocLines[i], <<"|">>))
    => content =
         << Table(RowsOf(SubSeq(DocLines, 1, FirstSeparator - 1)),
                  RowsOf(SelectSeq(SubSeq(DocLines, FirstSeparator + 1,
                                          Len(DocLines)),
                                   NotSeparatorLine))) >>

\* one separator row, closed rows: the code does split head and body there
C7_CodeSplitsAtSeparator ==
    /\ pc = "done"
    /\ content = << Table(<< << <<"a">> >> >>, << << <<"b">> >> >>) >>

(***************************************************************************)
(* C8: no string accumulated from the input as text content holds a "<" or *)
(* a ">": in every Text, Code and Math primitive, every MathBlock and      *)
(* CodeBlock source and every table cell each "<" of the input is replaced *)
(* by "&lt;" and each ">" by "&gt;", the same for text, code and math.     *)
(***************************************************************************)
\* the string of a Text, Math or Code primitive
StringOf(prim) ==
    CASE prim.k = "Text" -> prim.text
      [] prim.k = "Math" -> prim.math
      [] prim.k = "Code" -> prim.code

\* the strings a primitive took from the input: not a title from the network
RECURSIVE PrimsStrings(_)
PrimsStrings(prims) ==
    IF prims = <<>> THEN <<>>
    ELSE (IF Head(prims).k # "Link" THEN <<StringOf(Head(prims))>>
          ELSE IF Head(prims).text = <<Text(get_title(Head(prims).url))>> THEN <<>>
          ELSE PrimsStrings(Head(prims).text)) \o PrimsStrings(Tail(prims))

\* the cells of table rows, row by row
RECURSIVE Cells(_)
Cells(rows) == IF rows = <<>> THEN <<>> ELSE Head(rows) \o Cells(Tail(rows))

BlockStrings(block) ==
    CASE block.k = "MathBlock" -> <<block.math>>
      [] block.k = "CodeBlock" -> <<block.code>>
      [] block.k = "Table" -> Cells(block.head) \o Cells(block.body)
      [] OTHER -> PrimsStrings(BlockPrims(block))

\* the text content of the blocks of content from block i on
RECURSIVE ContentStrings(_)
ContentStrings(i) ==
    IF i > Len(content) THEN <<>>
    ELSE BlockStrings(content[i]) \o ContentStrings(i + 1)

\* how often the character c occurs in the strings
RECURSIVE Count(_, _)
Count(strings, c) ==
    IF strings = <<>> THEN 0
    ELSE Cardinality({ i \in 1..Len(Head(strings)) : Head(strings)[i] = c })
         + Count(Tail(strings), c)

\* every character of the input went into text content: nothing into a
\* language tag or a URL
AllInputIsContent ==
    /\ pc = "done"
    /\ \A i \in 1..Len(content) : content[i].k # "CodeBlock"
    /\ Len(Made) = 0

C8_AnglesEscaped ==
    /\ Count(ContentStrings(1), "<") = 0
    /\ Count(ContentStrings(1), ">") = 0
    /\ AllInputIsContent =>
          /\ Count(ContentStrings(1), "l") = Count(<<doc>>, "<")
          /\ Count(ContentStrings(1), "g") = Count(<<doc>>, ">")
          /\ Count(ContentStrings(1), "&") = Count(<<doc>>, "<") + Count(<<doc>>, ">")

\* a "<" in text and a ">" in math, both escaped
C8_Witness ==
    /\ pc = "done"
    /\ content = << Paragraph(<< PrimElem(Text(<<"&", "l", "t", ";">>)),
                                PrimElem(Math(<<"&", "g", "t", ";">>)) >>) >>

(***************************************************************************)
(* C9: content never holds a Paragraph with no spans: a blank line adds no *)
(* block, and every other block parsed is appended to content, in parse    *)
(* order.                                                                  *)
(***************************************************************************)
IsEmptyParagraph(block) == block.k = "Paragraph" /\ block.spans = <<>>

\* the text at the cursor starts with a line ending
AtBlankLine == StartsWith(chs, <<"\n">>) \/ StartsWith(chs, <<"\r", "\n">>)

\* content grew by one block at its end
OneBlockAppended ==
    /\ Len(content') = Len(content) + 1
    /\ SubSeq(content', 1, Len(content)) = content

C9_EmptyParagraphsDropped ==
    /\ [](\A i \in 1..Len(content) : ~IsEmptyParagraph(content[i]))
    /\ [][/\ content' = content \/ OneBlockAppended
          /\ chs' # chs =>
                IF AtBlankLine THEN content' = content ELSE OneBlockAppended]_vars

\* a blank line and a line of text were parsed: one block
C9_Witness ==
    /\ pc = "done"
    /\ doc = <<"\n", "a", "\n", "\n">>
    /\ content = << Paragraph(<< PrimElem(Text(<<"a">>)) >>) >>

(***************************************************************************)
(* C10: in parse_list an item whose marker stands after k spaces owns a    *)
(* child list of minimum indent k+1: a following item line with more than  *)
(* k spaces becomes a descendant of the item; one with at most k spaces    *)
(* ends the child list unconsumed and becomes a sibling at the nearest     *)
(* enclosing level whose minimum indent it satisfies.                      *)
(***************************************************************************)
Indent(i) == count_indent(DocLines[i])

IsItemLine(line) ==
    \/ StartsWith(Drop(line, count_indent(line)), <<"-", " ">>)
    \/ StartsWith(Drop(line, count_indent(line)), <<"+", " ">>)

\* the item that owns the list line i goes to: c, the item parsed last, when
\* line i has more spaces than c, else the owner found from the owner of c;
\* 0 stands for the top-level list
RECURSIVE Owner(_), OwnerFrom(_, _)
OwnerFrom(c, i) ==
    IF c = 0 \/ Indent(i) > Indent(c) THEN c ELSE OwnerFrom(Owner(c), i)

Owner(i) == OwnerFrom(i - 1, i)

RECURSIVE Depth(_)
Depth(i) == IF Owner(i) = 0 THEN 0 ELSE Depth(Owner(i)) + 1

\* the items of a list from item i on, depth first, each with its depth
RECURSIVE ItemsFrom(_, _, _)
ItemsFrom(items, i, depth) ==
    IF i > Len(items) THEN <<>>
    ELSE <<[depth |-> depth, spans |-> items[i].spans]>>
         \o ItemsFrom(items[i].list.items, 1, depth + 1)
         \o ItemsFrom(items, i + 1, depth)

C10_NestingFollowsIndent ==
    (/\ pc = "done"
     /\ DocLines # <<>>
     /\ \A i \in 1..Len(DocLines) : IsItemLine(DocLines[i])
     /\ Indent(1) = 0)
    => /\ Len(content) = 1
       /\ content[1].k = "ListElement"
       /\ ItemsFrom(content[1].list.items, 1, 0)
            = [i \in 1..Len(DocLines) |->
                  [depth |-> Depth(i),
                   spans |-> <<PrimElem(Text(Drop(DocLines[i], Indent(i) + 2)))>>]]

\* "- a" and then "  - b": one item a with one child b; then a sibling of a
C10_Witness ==
    /\ pc = "done"
    /\ content =
         << ListElement(List(TRUE,
               << ListItem(<<PrimElem(Text(<<"a">>))>>,
                           List(FALSE,
                                << ListItem(<<PrimElem(Text(<<"b">>))>>,
                                            List(FALSE, <<>>)) >>)),
                  ListItem(<<PrimElem(Text(<<"b">>))>>, List(FALSE, <<>>)) >>)) >>

(***************************************************************************)
(* C11: a bold or italic construct that is opened and not closed before    *)
(* the end of the input is closed there: parse_bold / parse_italic return  *)
(* a Bold / Ital holding the spans parsed so far, and the parse completes.  *)
(***************************************************************************)
\* the text holds nothing but the letter a
IsPlain(text) == \A i \in 1..Len(text) : text[i] = "a"

\* the spans of a plain text: none for the empty text, else one Text
PlainSpans(text) == IF text = <<>> THEN <<>> ELSE <<PrimElem(Text(text))>>

\* the input is an opening marker and plain text to the end of the input
OpensBold == StartsWith(doc, <<"*", "*">>) /\ IsPlain(Drop(doc, 2))

OpensItalic == StartsWith(doc, <<"_", "_">>) /\ IsPlain(Drop(doc, 2))

C11_OpenEmphasisClosesAtEnd ==
    /\ OpensBold \/ OpensItalic => pc # "hang"
    /\ OpensBold /\ pc = "done" =>
          content = << Paragraph(<< Bold(PlainSpans(Drop(doc, 2))) >>) >>
    /\ OpensItalic /\ pc = "done" =>
          content = << Paragraph(<< Ital(PlainSpans(Drop(doc, 2))) >>) >>

\* closed constructs do return: bold text with italic text inside
C11_ClosedEmphasisReturns ==
    /\ pc = "done"
    /\ content = << Paragraph(<< Bold(<< Ital(<< PrimElem(Text(<<"a">>)) >>) >>) >>) >>

(***************************************************************************)
(* C12: a call of parse_spans consumes the input up to and including the   *)
(* first line ending at or after its start, or up to the end of the input, *)
(* and no character of a following line: the spans of a Paragraph come     *)
(* from one line, also when the line holds an unterminated code or math    *)
(* span or a link whose URL has no closing ")".                            *)
(***************************************************************************)
\* the text the step consumed
Consumed == SubSeq(chs, 1, Len(chs) - Len(chs'))

\* the step parsed a paragraph: it returned and appended a Paragraph, or
\* nothing, the paragraph being empty
ParsesParagraph ==
    /\ pc = "run" /\ pc' = "run" /\ chs' # chs
    /\ \/ content' = content
       \/ content' # content /\ content'[Len(content')].k = "Paragraph"

\* no line ending in the text but at its end
WithinOneLine(text) == \A i \in 1..(Len(text) - 1) : text[i] # "\n"

C12_SpansStayOnOneLine == [][ParsesParagraph => WithinOneLine(Consumed)]_vars

\* a paragraph of the two lines of a link whose URL is not closed
C12_LinkRunsIntoNextLine ==
    /\ pc = "done"
    /\ doc = <<"[", "]", "(", "a", "\n", "a">>
    /\ content = << Paragraph(<< PrimElem(Link(<<Text(get_title(<<"a">>))>>, <<"a">>)),
                                PrimElem(Text(<<"a">>)) >>) >>

\* a paragraph whose math span holds the line ending and the second line
C12_MathRunsIntoNextLine ==
    /\ pc = "done"
    /\ doc = <<"$", "a", "\n", "a">>
    /\ content = << Paragraph(<< PrimElem(Math(<<"a", "\n", "a">>)) >>) >>

\* a closed line is parsed alone: the second line is a paragraph of its own
C12_ClosedLineParsedAlone ==
    /\ pc = "done"
    /\ doc = <<"$", "a", "$", "\n", "a">>
    /\ content = << Paragraph(<< PrimElem(Math(<<"a">>)) >>),
                    Paragraph(<< PrimElem(Text(<<"a">>)) >>) >>

(***************************************************************************)
(* C13: the ordered flag of every list parse_list returns with at least    *)
(* one item is the marker of the last item parsed at that level, "+" for   *)
(* true and "-" for false, whatever the markers of the earlier items of    *)
(* the level and of the child lists; a list without items is not ordered.  *)
(***************************************************************************)
\* the number of the items from item i on, those of the child lists included
ItemCount(items, i) == Len(ItemsFrom(items, i, 0))

\* the list nodes of a list whose first item was parsed from line start, the
\* list itself first: the flag of each and the line of its last item, 0 for
\* a list without items
RECURSIVE ListNodes(_, _), ChildNodes(_, _, _)
ListNodes(list, start) ==
    <<[ordered |-> list.ordered,
       last |-> IF list.items = <<>> THEN 0
                ELSE start + ItemCount(list.items, 1)
                           - ItemCount(list.items, Len(list.items))]>>
    \o ChildNodes(list.items, 1, start)

ChildNodes(items, i, start) ==
    IF i > Len(items) THEN <<>>
    ELSE ListNodes(items[i].list, start + 1)
         \o ChildNodes(items, i + 1, start + ItemCount(<<items[i]>>, 1))

\* the marker of the line is "+"
IsOrderedLine(line) == StartsWith(Drop(line, count_indent(line)), <<"+", " ">>)

C13_OrderedIsLastMarker ==
    (/\ pc = "done"
     /\ DocLines # <<>>
     /\ \A i \in 1..Len(DocLines) : IsItemLine(DocLines[i])
     /\ Indent(1) = 0
     /\ Len(content) = 1
     /\ content[1].k = "ListElement")
    => \A n \in 1..Len(ListNodes(content[1].list, 1)) :
          ListNodes(content[1].list, 1)[n].ordered
            = (/\ ListNodes(content[1].list, 1)[n].last # 0
               /\ IsOrderedLine(DocLines[ListNodes(content[1].list, 1)[n].last]))

\* "+ b", "  - b", "  + a", "- a": the list ends with "-" after a "+" and is
\* not ordered, the child list of its first item ends with "+" after a "-"
\* and is ordered, the lists without items are not ordered
C13_Witness ==
    /\ pc = "done"
    /\ content =
         << ListElement(List(FALSE,
               << ListItem(<<PrimElem(Text(<<"b">>))>>,
                           List(TRUE,
                                << ListItem(<<PrimElem(Text(<<"b">>))>>,
                                            List(FALSE, <<>>)),
                                   ListItem(<<PrimElem(Text(<<"a">>))>>,
                                            List(FALSE, <<>>)) >>)),
                  ListItem(<<PrimElem(Text(<<"a">>))>>, List(FALSE, <<>>)) >>)) >>

(***************************************************************************)
(* C14: parsing a heading of level 1 sets the title to the id derived from *)
(* the heading, never suffixed, and leaves the registry of heading ids and *)
(* the TOC as they were; parsing any other block leaves the title as it    *)
(* was.  After the parse the title is the id of the last heading of level  *)
(* 1 of the input, or the empty string when there is none.                 *)
(***************************************************************************)
\* the positions in content of the headers of level 1
Titles ==
    { i \in 1..Len(content) : content[i].k = "Header" /\ content[i].level = 1 }

\* the lines of the input that are headings of level 1
TitleLines == SelectSeq(DocLines, LAMBDA line : StartsWith(line, <<"#", " ">>))

\* the step appended a header of level 1
AppendsTitle ==
    /\ OneBlockAppended
    /\ content'[Len(content')].k = "Header"
    /\ content'[Len(content')].level = 1

C14_TitleIsLastLevel1 ==
    /\ [](/\ \A i \in Titles : content[i].id = Base(i)
          /\ title = IF Titles = {} THEN <<>>
                     ELSE content[CHOOSE i \in Titles :
                                     \A j \in Titles : j <= i].id
          /\ pc = "done" =>
                title = IF TitleLines = <<>> THEN <<>>
                        ELSE Drop(TitleLines[Len(TitleLines)], 2))
    /\ [][IF AppendsTitle
          THEN /\ title' = header_id(header_toc(content'[Len(content')].prims))
               /\ headers' = headers
               /\ toc' = toc
          ELSE title' = title]_vars

\* two headings of level 1 with headings of level 2 between and after them:
\* the second one gave the title, the first one's text is in use as an id
C14_Witness ==
    /\ pc = "done"
    /\ title = <<"b">>
    /\ \E i, j \in Titles : i < j /\ content[i].id = <<"a">> /\ content[j].id = <<"b">>
    /\ \E i \in Headings : content[i].id = <<"a">>
    /\ toc.items # <<>>

====
